---------------------------- MODULE Spec2Model ----------------------------
(***************************************************************************)
(* A model of the lazy evaluation framework of                             *)
(* nbs/03_Lazy Evaluation Framework.ipynb: the LazyState progress tracker, *)
(* the LazyEvaluationClient controller with its question side channel,     *)
(* and the lazy() entry point.                                             *)
(*                                                                         *)
(* A Python str is the sequence of the code points of its characters, so   *)
(* that str.strip() and repr() are computed and not assumed: 112 is "p",   *)
(* 11 is U+000B, 8203 is U+200B.  Str spells a text by its characters.     *)
(* Python lists are sequences; a Python index i is the TLA+ index i + 1.   *)
(* Objects live in two heaps,                                              *)
(* trackers (LazyState instances) and clients (LazyEvaluationClient        *)
(* instances); a client's state field holds a tracker id, or None.  The    *)
(* list object a tracker's steps field refers to is named by steps_obj:    *)
(* trackers with the same steps_obj share one list.                        *)
(***************************************************************************)
EXTENDS Integers, Sequences, FiniteSets

VARIABLES
    system,     \* the binding of the module-level name `system`
    steps_obj,  \* tracker id -> the list object its steps field refers to, named
                \* by the lowest id of the trackers that refer to it
    trackers,   \* tracker id -> LazyState instance
    clients,    \* client id -> LazyEvaluationClient instance
    last,       \* history: the last call made, its inputs and its outcome
    done,       \* history: clients whose get_next_step has returned the sentinel
    appended    \* history: per tracker, the add_step calls made on it since it
                \* was constructed or last refreshed

vars == <<system, steps_obj, trackers, clients, last, done, appended>>

-----------------------------------------------------------------------------
(* Bounds of the model. *)

\* Longest steps list a tracker may grow to.
MaxSteps == 3
\* Longest question_history list a client may grow to.
MaxHistory == 4

\* The identities of the LazyState instances a run may construct, in the order
\* of their construction.
TrackerIds == {1, 2}
\* The identities of the LazyEvaluationClient instances a run may construct.
ClientIds == {1}

\* The value of a client's state field when no tracker is bound.
None == 0

-----------------------------------------------------------------------------
(* Texts. *)

\* The printable characters of ASCII, U+0020 to U+007E, in code point order,
\* but for the grave accent U+0060, which a TLA+ string cannot hold.
Ascii ==
    <<" ", "!", "\"", "#", "$", "%", "&", "'", "(", ")", "*", "+", ",", "-", ".", "/",
       "0", "1", "2", "3", "4", "5", "6", "7", "8", "9", ":", ";", "<", "=", ">", "?",
       "@", "A", "B", "C", "D", "E", "F", "G", "H", "I", "J", "K", "L", "M", "N", "O",
       "P", "Q", "R", "S", "T", "U", "V", "W", "X", "Y", "Z", "[", "\\", "]", "^", "_",
       "a", "b", "c", "d", "e", "f", "g", "h", "i", "j", "k", "l", "m", "n", "o", "p",
       "q", "r", "s", "t", "u", "v", "w", "x", "y", "z", "{", "|", "}", "~">>

\* ord() of a character a literal spells: a printable character of ASCII, or
\* one of the escapes \t, \n, \f and \r.
ord(c) ==
    IF c = "\t" THEN 9
    ELSE IF c = "\n" THEN 10
    ELSE IF c = "\f" THEN 12
    ELSE IF c = "\r" THEN 13
    ELSE LET i == CHOOSE j \in 1..Len(Ascii) : Ascii[j] = c
         IN  IF i <= 64 THEN 31 + i ELSE 32 + i

\* The str a literal spells, given character by character.
Str(literal) == [i \in 1..Len(literal) |-> ord(literal[i])]

\* The literal the notebook's loops compare a returned step with.
Sentinel == Str(<<"P", "R", "O", "B", "L", "E", "M", " ", "D", "O", "N", "E">>)

\* The characters str.strip() removes when called without an argument: those
\* for which str.isspace() is true.
Whitespace ==
    { 9, 10, 11, 12, 13, 28, 29, 30, 31, 32, 133, 160,
      5760, 8192, 8193, 8194, 8195, 8196, 8197, 8198, 8199, 8200, 8201, 8202,
      8232, 8233, 8239, 8287, 12288 }

RECURSIVE lstrip(_)
lstrip(s) ==
    IF s # <<>> /\ Head(s) \in Whitespace THEN lstrip(Tail(s)) ELSE s

RECURSIVE rstrip(_)
rstrip(s) ==
    IF s # <<>> /\ s[Len(s)] \in Whitespace
    THEN rstrip(SubSeq(s, 1, Len(s) - 1))
    ELSE s

\* str.strip()
strip(s) == rstrip(lstrip(s))

\* Problem statements a caller may pass (the empty text included).
Problems == {<<>>, Str(<<"p">>)}

\* Step texts a caller may pass to add_step directly.
StepInputs == {Str(<<"a">>)}

\* Questions a caller may ask.
Questions == {Str(<<"w", "?">>)}

\* Texts the backend may generate.
BackendTexts ==
    { Sentinel,
      Str(<<"\n">>) \o Sentinel \o Str(<<" ">>),
      <<11>> \o Str(<<"a", "\t">>) }

\* What one backend call may produce: an exception, a response with an empty
\* content list, a response whose first block has no text, or generated text.
Responses ==
    { [kind |-> k, text |-> <<>>] : k \in {"fault", "no_content", "no_text"} }
        \cup { [kind |-> "text", text |-> t] : t \in BackendTexts }

\* The outcomes of a call that raises.
NotInitialized == "ValueError: Problem is not initialized"
NoNextStep == "ValueError: No next step found"
BackendFault == "BackendFault"
IndexError == "IndexError"
AttributeError == "AttributeError"
NameError == "NameError"

\* A module-level name that no cell has bound, and one bound to a text.
Unbound == [bound |-> FALSE, text |-> <<>>]
Binding(text) == [bound |-> TRUE, text |-> text]

\* The text the name `system` is bound to in a session that has bound it; the
\* cells shown bind lazy_system_p and never `system`.
SystemText == Str(<<"{", "s", "y", "s", "t", "e", "m", "}">>)


-----------------------------------------------------------------------------
(* LazyState, the progress tracker. *)

\* A mutant of __post_init__: the problem is put before the steps supplied.
post_init_prepends(st) == [st EXCEPT !.steps = <<st.problem>> \o @]

\* A mutant of __post_init__: the problem is not seeded into steps.
post_init_no_seed(st) == st

\* LazyState.__post_init__
post_init(st) == [st EXCEPT !.steps = Append(@, st.problem)]

\* The dataclass constructor LazyState(problem, steps, current_step); the
\* defaults are steps = [] and current_step = 0.
LazyState(problem, steps, current_step) ==
    post_init([problem |-> problem, steps |-> steps, current_step |-> current_step])

\* A mutant of add_step: the step is recorded but the index is not advanced.
add_step_no_increment(st, step) == [st EXCEPT !.steps = Append(@, step)]

\* LazyState.add_step
add_step(st, step) ==
    [st EXCEPT !.steps = Append(@, step), !.current_step = @ + 1]

\* The characters of an integer, as str() spells it.
Digits == Str(<<"0", "1", "2", "3", "4", "5", "6", "7", "8", "9">>)

RECURSIVE py_str_nat(_)
py_str_nat(n) ==
    IF n < 10 THEN <<Digits[n + 1]>>
    ELSE py_str_nat(n \div 10) \o <<Digits[(n % 10) + 1]>>

\* str(n) of an int.
py_str_int(n) == IF n < 0 THEN Str(<<"-">>) \o py_str_nat(-n) ELSE py_str_nat(n)

\* Whether character ch occurs in text s.
Contains(s, ch) == \E i \in 1..Len(s) : s[i] = ch

\* The two quotes of a str literal.
SingleQuote == ord("'")
DoubleQuote == ord("\"")

\* The quote repr() puts around a str: a double quote when the text holds a
\* single quote and no double quote, a single quote otherwise.
py_quote(s) ==
    IF Contains(s, SingleQuote) /\ ~Contains(s, DoubleQuote) THEN DoubleQuote ELSE SingleQuote

\* The ranges of code points from U+007F up for which str.isprintable() is
\* false (Unicode 14.0, the database of Python 3.11): the control, format,
\* surrogate, private-use and unassigned code points and the separators other
\* than the ASCII space, each range with its first and last code point.
NonPrintableRanges ==
    { <<127, 160>>, <<173, 173>>, <<888, 889>>, <<896, 899>>,
      <<907, 907>>, <<909, 909>>, <<930, 930>>, <<1328, 1328>>,
      <<1367, 1368>>, <<1419, 1420>>, <<1424, 1424>>, <<1480, 1487>>,
      <<1515, 1518>>, <<1525, 1541>>, <<1564, 1564>>, <<1757, 1757>>,
      <<1806, 1807>>, <<1867, 1868>>, <<1970, 1983>>, <<2043, 2044>>,
      <<2094, 2095>>, <<2111, 2111>>, <<2140, 2141>>, <<2143, 2143>>,
      <<2155, 2159>>, <<2191, 2199>>, <<2274, 2274>>, <<2436, 2436>>,
      <<2445, 2446>>, <<2449, 2450>>, <<2473, 2473>>, <<2481, 2481>>,
      <<2483, 2485>>, <<2490, 2491>>, <<2501, 2502>>, <<2505, 2506>>,
      <<2511, 2518>>, <<2520, 2523>>, <<2526, 2526>>, <<2532, 2533>>,
      <<2559, 2560>>, <<2564, 2564>>, <<2571, 2574>>, <<2577, 2578>>,
      <<2601, 2601>>, <<2609, 2609>>, <<2612, 2612>>, <<2615, 2615>>,
      <<2618, 2619>>, <<2621, 2621>>, <<2627, 2630>>, <<2633, 2634>>,
      <<2638, 2640>>, <<2642, 2648>>, <<2653, 2653>>, <<2655, 2661>>,
      <<2679, 2688>>, <<2692, 2692>>, <<2702, 2702>>, <<2706, 2706>>,
      <<2729, 2729>>, <<2737, 2737>>, <<2740, 2740>>, <<2746, 2747>>,
      <<2758, 2758>>, <<2762, 2762>>, <<2766, 2767>>, <<2769, 2783>>,
      <<2788, 2789>>, <<2802, 2808>>, <<2816, 2816>>, <<2820, 2820>>,
      <<2829, 2830>>, <<2833, 2834>>, <<2857, 2857>>, <<2865, 2865>>,
      <<2868, 2868>>, <<2874, 2875>>, <<2885, 2886>>, <<2889, 2890>>,
      <<2894, 2900>>, <<2904, 2907>>, <<2910, 2910>>, <<2916, 2917>>,
      <<2936, 2945>>, <<2948, 2948>>, <<2955, 2957>>, <<2961, 2961>>,
      <<2966, 2968>>, <<2971, 2971>>, <<2973, 2973>>, <<2976, 2978>>,
      <<2981, 2983>>, <<2987, 2989>>, <<3002, 3005>>, <<3011, 3013>>,
      <<3017, 3017>>, <<3022, 3023>>, <<3025, 3030>>, <<3032, 3045>>,
      <<3067, 3071>>, <<3085, 3085>>, <<3089, 3089>>, <<3113, 3113>>,
      <<3130, 3131>>, <<3141, 3141>>, <<3145, 3145>>, <<3150, 3156>>,
      <<3159, 3159>>, <<3163, 3164>>, <<3166, 3167>>, <<3172, 3173>>,
      <<3184, 3190>>, <<3213, 3213>>, <<3217, 3217>>, <<3241, 3241>>,
      <<3252, 3252>>, <<3258, 3259>>, <<3269, 3269>>, <<3273, 3273>>,
      <<3278, 3284>>, <<3287, 3292>>, <<3295, 3295>>, <<3300, 3301>>,
      <<3312, 3312>>, <<3315, 3327>>, <<3341, 3341>>, <<3345, 3345>>,
      <<3397, 3397>>, <<3401, 3401>>, <<3408, 3411>>, <<3428, 3429>>,
      <<3456, 3456>>, <<3460, 3460>>, <<3479, 3481>>, <<3506, 3506>>,
      <<3516, 3516>>, <<3518, 3519>>, <<3527, 3529>>, <<3531, 3534>>,
      <<3541, 3541>>, <<3543, 3543>>, <<3552, 3557>>, <<3568, 3569>>,
      <<3573, 3584>>, <<3643, 3646>>, <<3676, 3712>>, <<3715, 3715>>,
      <<3717, 3717>>, <<3723, 3723>>, <<3748, 3748>>, <<3750, 3750>>,
      <<3774, 3775>>, <<3781, 3781>>, <<3783, 3783>>, <<3790, 3791>>,
      <<3802, 3803>>, <<3808, 3839>>, <<3912, 3912>>, <<3949, 3952>>,
      <<3992, 3992>>, <<4029, 4029>>, <<4045, 4045>>, <<4059, 4095>>,
      <<4294, 4294>>, <<4296, 4300>>, <<4302, 4303>>, <<4681, 4681>>,
      <<4686, 4687>>, <<4695, 4695>>, <<4697, 4697>>, <<4702, 4703>>,
      <<4745, 4745>>, <<4750, 4751>>, <<4785, 4785>>, <<4790, 4791>>,
      <<4799, 4799>>, <<4801, 4801>>, <<4806, 4807>>, <<4823, 4823>>,
      <<4881, 4881>>, <<4886, 4887>>, <<4955, 4956>>, <<4989, 4991>>,
      <<5018, 5023>>, <<5110, 5111>>, <<5118, 5119>>, <<5760, 5760>>,
      <<5789, 5791>>, <<5881, 5887>>, <<5910, 5918>>, <<5943, 5951>>,
      <<5972, 5983>>, <<5997, 5997>>, <<6001, 6001>>, <<6004, 6015>>,
      <<6110, 6111>>, <<6122, 6127>>, <<6138, 6143>>, <<6158, 6158>>,
      <<6170, 6175>>, <<6265, 6271>>, <<6315, 6319>>, <<6390, 6399>>,
      <<6431, 6431>>, <<6444, 6447>>, <<6460, 6463>>, <<6465, 6467>>,
      <<6510, 6511>>, <<6517, 6527>>, <<6572, 6575>>, <<6602, 6607>>,
      <<6619, 6621>>, <<6684, 6685>>, <<6751, 6751>>, <<6781, 6782>>,
      <<6794, 6799>>, <<6810, 6815>>, <<6830, 6831>>, <<6863, 6911>>,
      <<6989, 6991>>, <<7039, 7039>>, <<7156, 7163>>, <<7224, 7226>>,
      <<7242, 7244>>, <<7305, 7311>>, <<7355, 7356>>, <<7368, 7375>>,
      <<7419, 7423>>, <<7958, 7959>>, <<7966, 7967>>, <<8006, 8007>>,
      <<8014, 8015>>, <<8024, 8024>>, <<8026, 8026>>, <<8028, 8028>>,
      <<8030, 8030>>, <<8062, 8063>>, <<8117, 8117>>, <<8133, 8133>>,
      <<8148, 8149>>, <<8156, 8156>>, <<8176, 8177>>, <<8181, 8181>>,
      <<8191, 8207>>, <<8232, 8239>>, <<8287, 8303>>, <<8306, 8307>>,
      <<8335, 8335>>, <<8349, 8351>>, <<8385, 8399>>, <<8433, 8447>>,
      <<8588, 8591>>, <<9255, 9279>>, <<9291, 9311>>, <<11124, 11125>>,
      <<11158, 11158>>, <<11508, 11512>>, <<11558, 11558>>, <<11560, 11564>>,
      <<11566, 11567>>, <<11624, 11630>>, <<11633, 11646>>, <<11671, 11679>>,
      <<11687, 11687>>, <<11695, 11695>>, <<11703, 11703>>, <<11711, 11711>>,
      <<11719, 11719>>, <<11727, 11727>>, <<11735, 11735>>, <<11743, 11743>>,
      <<11870, 11903>>, <<11930, 11930>>, <<12020, 12031>>, <<12246, 12271>>,
      <<12284, 12288>>, <<12352, 12352>>, <<12439, 12440>>, <<12544, 12548>>,
      <<12592, 12592>>, <<12687, 12687>>, <<12772, 12783>>, <<12831, 12831>>,
      <<42125, 42127>>, <<42183, 42191>>, <<42540, 42559>>, <<42744, 42751>>,
      <<42955, 42959>>, <<42962, 42962>>, <<42964, 42964>>, <<42970, 42993>>,
      <<43053, 43055>>, <<43066, 43071>>, <<43128, 43135>>, <<43206, 43213>>,
      <<43226, 43231>>, <<43348, 43358>>, <<43389, 43391>>, <<43470, 43470>>,
      <<43482, 43485>>, <<43519, 43519>>, <<43575, 43583>>, <<43598, 43599>>,
      <<43610, 43611>>, <<43715, 43738>>, <<43767, 43776>>, <<43783, 43784>>,
      <<43791, 43792>>, <<43799, 43807>>, <<43815, 43815>>, <<43823, 43823>>,
      <<43884, 43887>>, <<44014, 44015>>, <<44026, 44031>>, <<55204, 55215>>,
      <<55239, 55242>>, <<55292, 63743>>, <<64110, 64111>>, <<64218, 64255>>,
      <<64263, 64274>>, <<64280, 64284>>, <<64311, 64311>>, <<64317, 64317>>,
      <<64319, 64319>>, <<64322, 64322>>, <<64325, 64325>>, <<64451, 64466>>,
      <<64912, 64913>>, <<64968, 64974>>, <<64976, 65007>>, <<65050, 65055>>,
      <<65107, 65107>>, <<65127, 65127>>, <<65132, 65135>>, <<65141, 65141>>,
      <<65277, 65280>>, <<65471, 65473>>, <<65480, 65481>>, <<65488, 65489>>,
      <<65496, 65497>>, <<65501, 65503>>, <<65511, 65511>>, <<65519, 65531>>,
      <<65534, 65535>>, <<65548, 65548>>, <<65575, 65575>>, <<65595, 65595>>,
      <<65598, 65598>>, <<65614, 65615>>, <<65630, 65663>>, <<65787, 65791>>,
      <<65795, 65798>>, <<65844, 65846>>, <<65935, 65935>>, <<65949, 65951>>,
      <<65953, 65999>>, <<66046, 66175>>, <<66205, 66207>>, <<66257, 66271>>,
      <<66300, 66303>>, <<66340, 66348>>, <<66379, 66383>>, <<66427, 66431>>,
      <<66462, 66462>>, <<66500, 66503>>, <<66518, 66559>>, <<66718, 66719>>,
      <<66730, 66735>>, <<66772, 66775>>, <<66812, 66815>>, <<66856, 66863>>,
      <<66916, 66926>>, <<66939, 66939>>, <<66955, 66955>>, <<66963, 66963>>,
      <<66966, 66966>>, <<66978, 66978>>, <<66994, 66994>>, <<67002, 67002>>,
      <<67005, 67071>>, <<67383, 67391>>, <<67414, 67423>>, <<67432, 67455>>,
      <<67462, 67462>>, <<67505, 67505>>, <<67515, 67583>>, <<67590, 67591>>,
      <<67593, 67593>>, <<67638, 67638>>, <<67641, 67643>>, <<67645, 67646>>,
      <<67670, 67670>>, <<67743, 67750>>, <<67760, 67807>>, <<67827, 67827>>,
      <<67830, 67834>>, <<67868, 67870>>, <<67898, 67902>>, <<67904, 67967>>,
      <<68024, 68027>>, <<68048, 68049>>, <<68100, 68100>>, <<68103, 68107>>,
      <<68116, 68116>>, <<68120, 68120>>, <<68150, 68151>>, <<68155, 68158>>,
      <<68169, 68175>>, <<68185, 68191>>, <<68256, 68287>>, <<68327, 68330>>,
      <<68343, 68351>>, <<68406, 68408>>, <<68438, 68439>>, <<68467, 68471>>,
      <<68498, 68504>>, <<68509, 68520>>, <<68528, 68607>>, <<68681, 68735>>,
      <<68787, 68799>>, <<68851, 68857>>, <<68904, 68911>>, <<68922, 69215>>,
      <<69247, 69247>>, <<69290, 69290>>, <<69294, 69295>>, <<69298, 69375>>,
      <<69416, 69423>>, <<69466, 69487>>, <<69514, 69551>>, <<69580, 69599>>,
      <<69623, 69631>>, <<69710, 69713>>, <<69750, 69758>>, <<69821, 69821>>,
      <<69827, 69839>>, <<69865, 69871>>, <<69882, 69887>>, <<69941, 69941>>,
      <<69960, 69967>>, <<70007, 70015>>, <<70112, 70112>>, <<70133, 70143>>,
      <<70162, 70162>>, <<70207, 70271>>, <<70279, 70279>>, <<70281, 70281>>,
      <<70286, 70286>>, <<70302, 70302>>, <<70314, 70319>>, <<70379, 70383>>,
      <<70394, 70399>>, <<70404, 70404>>, <<70413, 70414>>, <<70417, 70418>>,
      <<70441, 70441>>, <<70449, 70449>>, <<70452, 70452>>, <<70458, 70458>>,
      <<70469, 70470>>, <<70473, 70474>>, <<70478, 70479>>, <<70481, 70486>>,
      <<70488, 70492>>, <<70500, 70501>>, <<70509, 70511>>, <<70517, 70655>>,
      <<70748, 70748>>, <<70754, 70783>>, <<70856, 70863>>, <<70874, 71039>>,
      <<71094, 71095>>, <<71134, 71167>>, <<71237, 71247>>, <<71258, 71263>>,
      <<71277, 71295>>, <<71354, 71359>>, <<71370, 71423>>, <<71451, 71452>>,
      <<71468, 71471>>, <<71495, 71679>>, <<71740, 71839>>, <<71923, 71934>>,
      <<71943, 71944>>, <<71946, 71947>>, <<71956, 71956>>, <<71959, 71959>>,
      <<71990, 71990>>, <<71993, 71994>>, <<72007, 72015>>, <<72026, 72095>>,
      <<72104, 72105>>, <<72152, 72153>>, <<72165, 72191>>, <<72264, 72271>>,
      <<72355, 72367>>, <<72441, 72703>>, <<72713, 72713>>, <<72759, 72759>>,
      <<72774, 72783>>, <<72813, 72815>>, <<72848, 72849>>, <<72872, 72872>>,
      <<72887, 72959>>, <<72967, 72967>>, <<72970, 72970>>, <<73015, 73017>>,
      <<73019, 73019>>, <<73022, 73022>>, <<73032, 73039>>, <<73050, 73055>>,
      <<73062, 73062>>, <<73065, 73065>>, <<73103, 73103>>, <<73106, 73106>>,
      <<73113, 73119>>, <<73130, 73439>>, <<73465, 73647>>, <<73649, 73663>>,
      <<73714, 73726>>, <<74650, 74751>>, <<74863, 74863>>, <<74869, 74879>>,
      <<75076, 77711>>, <<77811, 77823>>, <<78895, 82943>>, <<83527, 92159>>,
      <<92729, 92735>>, <<92767, 92767>>, <<92778, 92781>>, <<92863, 92863>>,
      <<92874, 92879>>, <<92910, 92911>>, <<92918, 92927>>, <<92998, 93007>>,
      <<93018, 93018>>, <<93026, 93026>>, <<93048, 93052>>, <<93072, 93759>>,
      <<93851, 93951>>, <<94027, 94030>>, <<94088, 94094>>, <<94112, 94175>>,
      <<94181, 94191>>, <<94194, 94207>>, <<100344, 100351>>, <<101590, 101631>>,
      <<101641, 110575>>, <<110580, 110580>>, <<110588, 110588>>, <<110591, 110591>>,
      <<110883, 110927>>, <<110931, 110947>>, <<110952, 110959>>, <<111356, 113663>>,
      <<113771, 113775>>, <<113789, 113791>>, <<113801, 113807>>, <<113818, 113819>>,
      <<113824, 118527>>, <<118574, 118575>>, <<118599, 118607>>, <<118724, 118783>>,
      <<119030, 119039>>, <<119079, 119080>>, <<119155, 119162>>, <<119275, 119295>>,
      <<119366, 119519>>, <<119540, 119551>>, <<119639, 119647>>, <<119673, 119807>>,
      <<119893, 119893>>, <<119965, 119965>>, <<119968, 119969>>, <<119971, 119972>>,
      <<119975, 119976>>, <<119981, 119981>>, <<119994, 119994>>, <<119996, 119996>>,
      <<120004, 120004>>, <<120070, 120070>>, <<120075, 120076>>, <<120085, 120085>>,
      <<120093, 120093>>, <<120122, 120122>>, <<120127, 120127>>, <<120133, 120133>>,
      <<120135, 120137>>, <<120145, 120145>>, <<120486, 120487>>, <<120780, 120781>>,
      <<121484, 121498>>, <<121504, 121504>>, <<121520, 122623>>, <<122655, 122879>>,
      <<122887, 122887>>, <<122905, 122906>>, <<122914, 122914>>, <<122917, 122917>>,
      <<122923, 123135>>, <<123181, 123183>>, <<123198, 123199>>, <<123210, 123213>>,
      <<123216, 123535>>, <<123567, 123583>>, <<123642, 123646>>, <<123648, 124895>>,
      <<124903, 124903>>, <<124908, 124908>>, <<124911, 124911>>, <<124927, 124927>>,
      <<125125, 125126>>, <<125143, 125183>>, <<125260, 125263>>, <<125274, 125277>>,
      <<125280, 126064>>, <<126133, 126208>>, <<126270, 126463>>, <<126468, 126468>>,
      <<126496, 126496>>, <<126499, 126499>>, <<126501, 126502>>, <<126504, 126504>>,
      <<126515, 126515>>, <<126520, 126520>>, <<126522, 126522>>, <<126524, 126529>>,
      <<126531, 126534>>, <<126536, 126536>>, <<126538, 126538>>, <<126540, 126540>>,
      <<126544, 126544>>, <<126547, 126547>>, <<126549, 126550>>, <<126552, 126552>>,
      <<126554, 126554>>, <<126556, 126556>>, <<126558, 126558>>, <<126560, 126560>>,
      <<126563, 126563>>, <<126565, 126566>>, <<126571, 126571>>, <<126579, 126579>>,
      <<126584, 126584>>, <<126589, 126589>>, <<126591, 126591>>, <<126602, 126602>>,
      <<126620, 126624>>, <<126628, 126628>>, <<126634, 126634>>, <<126652, 126703>>,
      <<126706, 126975>>, <<127020, 127023>>, <<127124, 127135>>, <<127151, 127152>>,
      <<127168, 127168>>, <<127184, 127184>>, <<127222, 127231>>, <<127406, 127461>>,
      <<127491, 127503>>, <<127548, 127551>>, <<127561, 127567>>, <<127570, 127583>>,
      <<127590, 127743>>, <<128728, 128732>>, <<128749, 128751>>, <<128765, 128767>>,
      <<128884, 128895>>, <<128985, 128991>>, <<129004, 129007>>, <<129009, 129023>>,
      <<129036, 129039>>, <<129096, 129103>>, <<129114, 129119>>, <<129160, 129167>>,
      <<129198, 129199>>, <<129202, 129279>>, <<129620, 129631>>, <<129646, 129647>>,
      <<129653, 129655>>, <<129661, 129663>>, <<129671, 129679>>, <<129709, 129711>>,
      <<129723, 129727>>, <<129734, 129743>>, <<129754, 129759>>, <<129768, 129775>>,
      <<129783, 129791>>, <<129939, 129939>>, <<129995, 130031>>, <<130042, 131071>>,
      <<173792, 173823>>, <<177977, 177983>>, <<178206, 178207>>, <<183970, 183983>>,
      <<191457, 194559>>, <<195102, 196607>>, <<201547, 917759>>, <<918000, 1114111>> }

\* str.isprintable() of one character: below U+007F the characters from the
\* space on are printable and the control characters are not.
isprintable(ch) ==
    IF ch < 127 THEN ch >= 32
    ELSE \A r \in NonPrintableRanges : ch < r[1] \/ ch > r[2]

\* The digits of the hexadecimal escapes repr() writes.
HexDigits == Str(<<"0", "1", "2", "3", "4", "5", "6", "7", "8", "9", "a", "b", "c", "d", "e", "f">>)

\* The number n in hexadecimal, in exactly width digits.
RECURSIVE py_hex(_, _)
py_hex(n, width) ==
    IF width = 0 THEN <<>>
    ELSE py_hex(n \div 16, width - 1) \o <<HexDigits[(n % 16) + 1]>>

\* The characters repr() escapes by name, and the letters of its escapes.
Backslash == ord("\\")
Tab == ord("\t")
Newline == ord("\n")
Return == ord("\r")
LetterT == ord("t")
LetterN == ord("n")
LetterR == ord("r")
LetterX == ord("x")
LetterU == ord("u")
CapitalU == ord("U")

\* repr() of one character inside a str quoted with q: the quote and the
\* backslash take a backslash, tab, newline and carriage return are written
\* \t, \n and \r, any other character that is not printable is written \xNN,
\* \uNNNN or \UNNNNNNNN by the size of its code point, and a printable
\* character is written as it is.
py_repr_char(ch, q) ==
    IF ch = Backslash THEN <<Backslash, Backslash>>
    ELSE IF ch = q THEN <<Backslash, q>>
    ELSE IF ch = Newline THEN <<Backslash, LetterN>>
    ELSE IF ch = Tab THEN <<Backslash, LetterT>>
    ELSE IF ch = Return THEN <<Backslash, LetterR>>
    ELSE IF isprintable(ch) THEN <<ch>>
    ELSE IF ch < 256 THEN <<Backslash, LetterX>> \o py_hex(ch, 2)
    ELSE IF ch < 65536 THEN <<Backslash, LetterU>> \o py_hex(ch, 4)
    ELSE <<Backslash, CapitalU>> \o py_hex(ch, 8)

RECURSIVE py_repr_chars(_, _)
py_repr_chars(s, q) ==
    IF s = <<>> THEN <<>>
    ELSE py_repr_char(Head(s), q) \o py_repr_chars(Tail(s), q)

\* repr() of a str.
py_repr_str(s) == <<py_quote(s)>> \o py_repr_chars(s, py_quote(s)) \o <<py_quote(s)>>

\* The separator str() of a list writes between two elements.
ListSeparator == Str(<<",", " ">>)

RECURSIVE py_join_reprs(_)
py_join_reprs(lst) ==
    IF lst = <<>> THEN <<>>
    ELSE IF Len(lst) = 1 THEN py_repr_str(lst[1])
    ELSE py_repr_str(lst[1]) \o ListSeparator \o py_join_reprs(Tail(lst))

\* The brackets str() of a list writes around the elements.
ListOpen == Str(<<"[">>)
ListClose == Str(<<"]">>)

\* str() of a list of str, which an f-string uses for {self.steps}.
py_str_list(lst) == ListOpen \o py_join_reprs(lst) \o ListClose

\* The literal parts of the f-string of get_context: before {self.problem}, and
\* between it and {self.steps}.
ProblemLabel == Str(<<"P", "r", "o", "b", "l", "e", "m", ":", " ">>)
StepsLabel ==
    Str(<<" ", "\n", " ", "S", "t", "e", "p", "s", " ", "s", "o", " ", "f", "a", "r", ":", " ">>)

\* A mutant of get_context: the rendering also shows the current index.
get_context_with_index(st) ==
    ProblemLabel \o st.problem
        \o StepsLabel
        \o py_str_list(st.steps) \o py_str_int(st.current_step)

\* LazyState.get_context: f"Problem: {self.problem} \n Steps so far: {self.steps}"
get_context(st) ==
    ProblemLabel \o st.problem
        \o StepsLabel
        \o py_str_list(st.steps)

\* The trackers whose steps field refers to the list object tracker t's does.
SameList(t) == { u \in 1..Len(steps_obj) : steps_obj[u] = steps_obj[t] }

\* The tracker heap after the list of tracker t was appended to in place, heap
\* holding the new list at t: every tracker that refers to the same list
\* object shows the new elements.
Stored(heap, t) ==
    [u \in 1..Len(heap) |->
        IF u \in SameList(t) THEN [heap[u] EXCEPT !.steps = heap[t].steps] ELSE heap[u]]

\* steps_obj after tracker t was given a list object of its own: t is named by
\* itself, and the trackers that shared its list by the lowest id among them.
Detached(t) ==
    [u \in 1..Len(steps_obj) |->
        IF u = t THEN t
        ELSE IF steps_obj[u] = steps_obj[t]
        THEN CHOOSE m \in SameList(t) \ {t} : \A v \in SameList(t) \ {t} : m <= v
        ELSE steps_obj[u]]

\* A mutant of refresh: the steps are reset but the index is left where it was.
refresh_keeps_index(st) == [st EXCEPT !.steps = <<st.problem>>]

\* A mutant of refresh: the index is reset but the recorded steps are kept.
refresh_keeps_steps(st) == [st EXCEPT !.current_step = 0]

\* A mutant of refresh: the steps list is emptied.
refresh_clears_steps(st) == [st EXCEPT !.current_step = 0, !.steps = <<>>]

\* LazyState.refresh
refresh(st) == [st EXCEPT !.current_step = 0, !.steps = <<st.problem>>]

\* Whether the Python expression lst[i] raises no IndexError.
ValidIndex(lst, i) == -Len(lst) <= i /\ i < Len(lst)

\* The Python expression lst[i], negative indices counting from the end.
Item(lst, i) == IF i >= 0 THEN lst[i + 1] ELSE lst[Len(lst) + i + 1]

-----------------------------------------------------------------------------
(* LazyEvaluationClient, the step disclosure controller. *)

\* What a call that raised returns in place of an object.
Raised(err) == [raised |-> err]
IsRaised(r) == "raised" \in DOMAIN r

\* LazyEvaluationClient.__init__: self.system = system reads the module-level
\* name, and raises NameError when it is not bound.
LazyEvaluationClient(state) ==
    IF ~system.bound
    THEN Raised(NameError)
    ELSE [state |-> state, system |-> system.text, question_history |-> <<>>]

\* The outcome of a call: the client and the tracker heap after it, the value
\* returned (when err is empty), the exception raised, and the number of
\* backend calls made.
Outcome(self, heap, ret, err, calls) ==
    [self |-> self, heap |-> heap, ret |-> ret, err |-> err, calls |-> calls]

\* A mutant of initalize_problem: binding a new problem also empties the
\* client's question_history.
initalize_problem_clears_history(self, t) ==
    [self EXCEPT !.state = t, !.question_history = <<>>]

\* A mutant of initalize_problem: the tracker already bound is kept.
initalize_problem_keeps_tracker(self, t) ==
    [self EXCEPT !.state = IF @ = None THEN t ELSE @]

\* LazyEvaluationClient.initalize_problem applied to the client.
initalize_problem(self, t) == [self EXCEPT !.state = t]

\* LazyEvaluationClient.get_current_step
get_current_step(self, heap) ==
    IF self.state = None
    THEN Outcome(self, heap, <<>>, AttributeError, 0)
    ELSE IF ~ValidIndex(heap[self.state].steps, heap[self.state].current_step)
    THEN Outcome(self, heap, <<>>, IndexError, 0)
    ELSE Outcome(self, heap,
                 Item(heap[self.state].steps, heap[self.state].current_step), "", 0)

\* One element of the messages list handed to the backend.
MessageParam(role, content) == [role |-> role, content |-> content]

\* What a call of self.client.messages.create hands to the backend: the system
\* text and the messages list.  NoRequest when the backend was not called.
Request(sys, messages) == [system |-> sys, messages |-> messages]
NoRequest == [system |-> <<>>, messages |-> <<>>]

\* A mutant of get_next_step_messages: the client's question_history is
\* rendered after the context.
get_next_step_messages_with_history(self, heap) ==
    << MessageParam("user",
                    get_context(heap[self.state]) \o py_str_list(self.question_history)) >>

\* The messages list get_next_step builds: one user message whose content is
\* self.state.get_context().
get_next_step_messages(self, heap) ==
    << MessageParam("user", get_context(heap[self.state])) >>

\* The literal parts of the f-string assigned to current_state, in order: before
\* {self.system}, {self.state.problem}, {self.state.get_context()} and
\* {self.state.steps[self.state.current_step]}, and after the last.
SystemField ==
    Str(<<"\n", " ", " ", " ", " ", " ", " ", " ", " ", "S", "y", "s",
        "t", "e", "m", ":", " ">>)
ProblemField ==
    Str(<<"\n", " ", " ", " ", " ", " ", " ", " ", " ", "P", "r", "o",
        "b", "l", "e", "m", ":", " ">>)
ContextField ==
    Str(<<"\n", "\n", " ", " ", " ", " ", " ", " ", " ", " ", "C", "o",
        "n", "t", "e", "x", "t", ":", " ">>)
CurrentStepField ==
    Str(<<"\n", " ", " ", " ", " ", " ", " ", " ", " ", "C", "u", "r",
        "r", "e", "n", "t", " ", "s", "t", "e", "p", ":", " ">>)
CurrentStateEnd == Str(<<"\n", " ", " ", " ", " ">>)

\* The f-string assigned to current_state in ask_question, with the four values
\* it interpolates.
current_state_text(sys, problem, context, step) ==
    SystemField
        \o sys
        \o ProblemField
        \o problem
        \o ContextField
        \o context
        \o CurrentStepField
        \o step
        \o CurrentStateEnd

\* current_state in ask_question: the system text of its backend call, built
\* from self.system, self.state.problem, self.state.get_context() and
\* self.state.steps[self.state.current_step].
ask_question_current_state(self, heap) ==
    current_state_text(self.system, heap[self.state].problem, get_context(heap[self.state]),
                       Item(heap[self.state].steps, heap[self.state].current_step))

\* The literal parts of the f-string assigned to prompt, in order: before
\* {self.question_history}, before {question}, and the instructions after it.
HistoryField ==
    Str(<<"\n", " ", " ", " ", " ", " ", " ", " ", " ", "Q", "u", "e",
        "s", "t", "i", "o", "n", " ", "H", "i", "s", "t", "o", "r",
        "y", ":", " ">>)
QuestionField ==
    Str(<<"\n", " ", " ", " ", " ", " ", " ", " ", " ", "Q", "u", "e",
        "s", "t", "i", "o", "n", ":", " ">>)
Instructions ==
    Str(<<"\n", "\n", " ", " ", " ", " ", " ", " ", " ", " ", "P", "l",
        "e", "a", "s", "e", " ", "a", "n", "s", "w", "e", "r", " ",
        "t", "h", "e", " ", "q", "u", "e", "s", "t", "i", "o", "n",
        " ", "w", "i", "t", "h", "o", "u", "t", " ", "a", "d", "v",
        "a", "n", "c", "i", "n", "g", " ", "t", "o", " ", "t", "h",
        "e", " ", "n", "e", "x", "t", " ", "s", "t", "e", "p", ".",
        "\n", " ", " ", " ", " ", " ", " ", " ", " ", "I", "f", " ",
        "y", "o", "u", " ", "a", "r", "e", " ", "a", "s", "k", "e",
        "d", " ", "t", "o", " ", "p", "r", "o", "v", "i", "d", "e",
        " ", "a", "n", " ", "e", "x", "a", "m", "p", "l", "e", " ",
        "f", "o", "r", " ", "a", " ", "s", "p", "e", "c", "i", "f",
        "i", "c", " ", "s", "t", "e", "p", ",", " ", "p", "l", "e",
        "a", "s", "e", " ", "p", "r", "o", "v", "i", "d", "e", " ",
        "a", "n", " ", "e", "x", "a", "m", "p", "l", "e", " ", "t",
        "h", "a", "t", " ", "i", "s", " ", "n", "o", "t", " ", "i",
        "n", " ", "t", "h", "e", " ", "c", "u", "r", "r", "e", "n",
        "t", " ", "c", "o", "n", "t", "e", "x", "t", ".", "\n", " ",
        " ", " ", " ">>)

\* The f-string assigned to prompt in ask_question, with the two values it
\* interpolates.
prompt_text(history, question) ==
    HistoryField
        \o history
        \o QuestionField
        \o question
        \o Instructions

\* A mutant of ask_question_messages: the question is put in the history before
\* the prompt is rendered.
ask_question_messages_after_append(self, question) ==
    << MessageParam("user",
                    prompt_text(py_str_list(Append(self.question_history, question)),
                                question)) >>

\* The messages list ask_question builds: one user message whose content is
\* prompt, rendered from self.question_history and the question.
ask_question_messages(self, question) ==
    << MessageParam("user", prompt_text(py_str_list(self.question_history), question)) >>

\* A mutant of get_next_step: the check for an unbound tracker is missing, so
\* the call fails on the first use of self.state instead.
get_next_step_no_guard(self, heap, resp) ==
    IF self.state = None
    THEN Outcome(self, heap, <<>>, AttributeError, 0)
    ELSE IF resp.kind = "fault"
    THEN Outcome(self, heap, <<>>, BackendFault, 1)
    ELSE IF resp.kind = "no_content"
    THEN Outcome(self, heap, <<>>, IndexError, 1)
    ELSE IF resp.kind = "no_text"
    THEN Outcome(self, heap, <<>>, NoNextStep, 1)
    ELSE Outcome(self,
                 Stored([heap EXCEPT ![self.state] = add_step(@, strip(resp.text))], self.state),
                 strip(resp.text), "", 1)

\* A mutant of get_next_step: a missing text is recorded as an empty step.
get_next_step_none_as_empty(self, heap, resp) ==
    IF self.state = None
    THEN Outcome(self, heap, <<>>, NotInitialized, 0)
    ELSE IF resp.kind = "fault"
    THEN Outcome(self, heap, <<>>, BackendFault, 1)
    ELSE IF resp.kind = "no_content"
    THEN Outcome(self, heap, <<>>, IndexError, 1)
    ELSE IF resp.kind = "no_text"
    THEN Outcome(self, Stored([heap EXCEPT ![self.state] = add_step(@, <<>>)], self.state), <<>>, "", 1)
    ELSE Outcome(self,
                 Stored([heap EXCEPT ![self.state] = add_step(@, strip(resp.text))], self.state),
                 strip(resp.text), "", 1)

\* A mutant of get_next_step: a failed backend call is made a second time.
get_next_step_retries(self, heap, resp) ==
    IF self.state = None
    THEN Outcome(self, heap, <<>>, NotInitialized, 0)
    ELSE IF resp.kind = "fault"
    THEN Outcome(self, heap, <<>>, BackendFault, 2)
    ELSE IF resp.kind = "no_content"
    THEN Outcome(self, heap, <<>>, IndexError, 1)
    ELSE IF resp.kind = "no_text"
    THEN Outcome(self, heap, <<>>, NoNextStep, 1)
    ELSE Outcome(self,
                 Stored([heap EXCEPT ![self.state] = add_step(@, strip(resp.text))], self.state),
                 strip(resp.text), "", 1)

\* A mutant of get_next_step: the trimmed text is recorded but the text is
\* returned as the backend sent it.
get_next_step_returns_raw(self, heap, resp) ==
    IF self.state = None
    THEN Outcome(self, heap, <<>>, NotInitialized, 0)
    ELSE IF resp.kind = "fault"
    THEN Outcome(self, heap, <<>>, BackendFault, 1)
    ELSE IF resp.kind = "no_content"
    THEN Outcome(self, heap, <<>>, IndexError, 1)
    ELSE IF resp.kind = "no_text"
    THEN Outcome(self, heap, <<>>, NoNextStep, 1)
    ELSE Outcome(self,
                 Stored([heap EXCEPT ![self.state] = add_step(@, strip(resp.text))], self.state),
                 resp.text, "", 1)

\* A mutant of get_next_step: the generated text is recorded untrimmed.
get_next_step_no_strip(self, heap, resp) ==
    IF self.state = None
    THEN Outcome(self, heap, <<>>, NotInitialized, 0)
    ELSE IF resp.kind = "fault"
    THEN Outcome(self, heap, <<>>, BackendFault, 1)
    ELSE IF resp.kind = "no_content"
    THEN Outcome(self, heap, <<>>, IndexError, 1)
    ELSE IF resp.kind = "no_text"
    THEN Outcome(self, heap, <<>>, NoNextStep, 1)
    ELSE Outcome(self,
                 Stored([heap EXCEPT ![self.state] = add_step(@, resp.text)], self.state),
                 strip(resp.text), "", 1)

\* LazyEvaluationClient.get_next_step
get_next_step(self, heap, resp) ==
    IF self.state = None
    THEN Outcome(self, heap, <<>>, NotInitialized, 0)
    ELSE IF ~system.bound
    THEN Outcome(self, heap, <<>>, NameError, 0)
    ELSE IF resp.kind = "fault"
    THEN Outcome(self, heap, <<>>, BackendFault, 1)
    ELSE IF resp.kind = "no_content"
    THEN Outcome(self, heap, <<>>, IndexError, 1)
    ELSE IF resp.kind = "no_text"
    THEN Outcome(self, heap, <<>>, NoNextStep, 1)
    ELSE Outcome(self,
                 Stored([heap EXCEPT ![self.state] = add_step(@, strip(resp.text))], self.state),
                 strip(resp.text), "", 1)

\* ask_question with the question, and then the answer, appended to the
\* client's question_history.
Asked(self, question) ==
    [self EXCEPT !.question_history = Append(@, question)]

\* A mutant of ask_question: the answer is recorded and returned untrimmed.
ask_question_no_strip(self, heap, question, resp) ==
    IF self.state = None
    THEN Outcome(self, heap, <<>>, AttributeError, 0)
    ELSE IF ~ValidIndex(heap[self.state].steps, heap[self.state].current_step)
    THEN Outcome(self, heap, <<>>, IndexError, 0)
    ELSE IF resp.kind = "fault"
    THEN Outcome(self, heap, <<>>, BackendFault, 1)
    ELSE IF resp.kind = "no_content"
    THEN Outcome(Asked(self, question), heap, <<>>, IndexError, 1)
    ELSE IF resp.kind = "no_text"
    THEN Outcome(Asked(self, question), heap, <<>>, AttributeError, 1)
    ELSE Outcome(Asked(Asked(self, question), resp.text),
                 heap, resp.text, "", 1)

\* A mutant of ask_question: the answer is also recorded as a step.
ask_question_adds_step(self, heap, question, resp) ==
    IF self.state = None
    THEN Outcome(self, heap, <<>>, AttributeError, 0)
    ELSE IF ~ValidIndex(heap[self.state].steps, heap[self.state].current_step)
    THEN Outcome(self, heap, <<>>, IndexError, 0)
    ELSE IF resp.kind = "fault"
    THEN Outcome(self, heap, <<>>, BackendFault, 1)
    ELSE IF resp.kind = "no_content"
    THEN Outcome(Asked(self, question), heap, <<>>, IndexError, 1)
    ELSE IF resp.kind = "no_text"
    THEN Outcome(Asked(self, question), heap, <<>>, AttributeError, 1)
    ELSE Outcome(Asked(Asked(self, question), strip(resp.text)),
                 Stored([heap EXCEPT ![self.state] = add_step(@, strip(resp.text))], self.state),
                 strip(resp.text), "", 1)

\* ask_question, patched onto LazyEvaluationClient
ask_question(self, heap, question, resp) ==
    IF self.state = None
    THEN Outcome(self, heap, <<>>, AttributeError, 0)
    ELSE IF ~ValidIndex(heap[self.state].steps, heap[self.state].current_step)
    THEN Outcome(self, heap, <<>>, IndexError, 0)
    ELSE IF resp.kind = "fault"
    THEN Outcome(self, heap, <<>>, BackendFault, 1)
    ELSE IF resp.kind = "no_content"
    THEN Outcome(Asked(self, question), heap, <<>>, IndexError, 1)
    ELSE IF resp.kind = "no_text"
    THEN Outcome(Asked(self, question), heap, <<>>, AttributeError, 1)
    ELSE Outcome(Asked(Asked(self, question), strip(resp.text)),
                 heap, strip(resp.text), "", 1)

\* A mutant of lazy: the client is constructed without the tracker.
lazy_unbound(t) == LazyEvaluationClient(None)

\* lazy, patched onto the backend client: the controller it returns for the
\* tracker t it has just constructed.
lazy(t) == LazyEvaluationClient(t)

-----------------------------------------------------------------------------
(* The state machine: every call a caller can make. *)

NoResponse == [kind |-> "none", text |-> <<>>]

\* The steps and current_step recorded for a call that passed none: the
\* dataclass defaults.
NoGiven == [steps |-> <<>>, current_step |-> 0]

\* The record of a call: the operation, the client and the tracker it was
\* made on (0 when none), its text argument, the backend's response, the value
\* returned, the exception raised ("" when none), the backend calls made, the
\* number of steps the tracker had when the call was made, and the request
\* handed to the backend (NoRequest unless the call is recorded with Sent);
\* for a constructor call, the steps and current_step passed (Given).
Call(op, c, t, arg, resp, ret, err, calls) ==
    [op |-> op, c |-> c, t |-> t, arg |-> arg, resp |-> resp,
     ret |-> ret, err |-> err, calls |-> calls,
     had |-> IF t \in 1..Len(trackers) THEN Len(trackers[t].steps) ELSE 0,
     sent |-> NoRequest, given |-> NoGiven]

\* The record of a constructor call that passed steps and current_step.
Given(call, steps, current_step) ==
    [call EXCEPT !.given = [steps |-> steps, current_step |-> current_step]]

\* The record of a call that reached the backend: call, with the request the
\* backend was handed.
Sent(call, request) == [call EXCEPT !.sent = request]

Init ==
    /\ system \in {Unbound, Binding(SystemText)}
    /\ trackers = <<>>
    /\ clients = <<>>
    /\ last = Call("init", 0, 0, <<>>, NoResponse, <<>>, "", 0)
    /\ done = {}
    /\ appended = <<>>
    /\ steps_obj = <<>>

\* state = LazyState(problem=p)
Create(p) ==
    /\ Len(trackers) < Cardinality(TrackerIds)
    /\ trackers' = Append(trackers, LazyState(p, <<>>, 0))
    /\ last' = Call("LazyState", 0, Len(trackers) + 1, p, NoResponse, <<>>, "", 0)
    /\ appended' = Append(appended, 0)
    /\ steps_obj' = Append(steps_obj, Len(trackers) + 1)
    /\ UNCHANGED <<system, clients, done>>

\* state.add_step(s)
AddStep(t, s) ==
    /\ t \in 1..Len(trackers)
    /\ Len(trackers[t].steps) < MaxSteps
    /\ trackers' = Stored([trackers EXCEPT ![t] = add_step(@, s)], t)
    /\ last' = Call("add_step", 0, t, s, NoResponse, <<>>, "", 0)
    /\ appended' = [appended EXCEPT ![t] = @ + 1]
    /\ UNCHANGED <<system, steps_obj, clients, done>>

\* state.refresh()
Refresh(t) ==
    /\ t \in 1..Len(trackers)
    /\ trackers' = [trackers EXCEPT ![t] = refresh(@)]
    /\ last' = Call("refresh", 0, t, <<>>, NoResponse, <<>>, "", 0)
    /\ appended' = [appended EXCEPT ![t] = 0]
    /\ steps_obj' = Detached(t)
    /\ UNCHANGED <<system, clients, done>>

\* LazyEvaluationClient(llm=llm) and LazyEvaluationClient(llm=llm, state=state)
NewClient(st) ==
    /\ st \in {None} \cup (1..Len(trackers))
    /\ Len(clients) < Cardinality(ClientIds)
    /\ LET r == LazyEvaluationClient(st)
       IN  IF IsRaised(r)
           THEN /\ last' = Call("LazyEvaluationClient", None, st, <<>>,
                                NoResponse, <<>>, r.raised, 0)
                /\ UNCHANGED clients
           ELSE /\ clients' = Append(clients, r)
                /\ last' = Call("LazyEvaluationClient", Len(clients) + 1, st, <<>>,
                                NoResponse, <<>>, "", 0)
    /\ UNCHANGED <<system, steps_obj, trackers, done, appended>>

\* client.lazy(p)
Lazy(p) ==
    /\ Len(trackers) < Cardinality(TrackerIds)
    /\ Len(clients) < Cardinality(ClientIds)
    /\ LET r == lazy(Len(trackers) + 1)
       IN  IF IsRaised(r)
           THEN /\ last' = Call("lazy", None, None, p, NoResponse, <<>>, r.raised, 0)
                /\ UNCHANGED <<steps_obj, trackers, clients, appended>>
           ELSE /\ trackers' = Append(trackers, LazyState(p, <<>>, 0))
                /\ clients' = Append(clients, r)
                /\ last' = Call("lazy", Len(clients) + 1, Len(trackers) + 1, p,
                                NoResponse, <<>>, "", 0)
                /\ appended' = Append(appended, 0)
                /\ steps_obj' = Append(steps_obj, Len(trackers) + 1)
    /\ UNCHANGED <<system, done>>

\* lazy_lm.initalize_problem(p)
InitalizeProblem(c, p) ==
    /\ c \in 1..Len(clients)
    /\ Len(trackers) < Cardinality(TrackerIds)
    /\ trackers' = Append(trackers, LazyState(p, <<>>, 0))
    /\ clients' = [clients EXCEPT ![c] = initalize_problem(@, Len(trackers) + 1)]
    /\ last' = Call("initalize_problem", c, Len(trackers) + 1, p,
                    NoResponse, <<>>, "", 0)
    /\ appended' = Append(appended, 0)
    /\ steps_obj' = Append(steps_obj, Len(trackers) + 1)
    /\ UNCHANGED <<system, done>>

\* lazy_lm.get_current_step()
GetCurrentStep(c) ==
    /\ c \in 1..Len(clients)
    /\ LET r == get_current_step(clients[c], trackers)
       IN  last' = Call("get_current_step", c, clients[c].state, <<>>,
                        NoResponse, r.ret, r.err, r.calls)
    /\ UNCHANGED <<system, steps_obj, trackers, clients, done, appended>>

\* lazy_lm.get_next_step(), the backend answering resp if it is called
GetNextStep(c, resp) ==
    /\ c \in 1..Len(clients)
    /\ clients[c].state # None => Len(trackers[clients[c].state].steps) < MaxSteps
    /\ LET r == get_next_step(clients[c], trackers, resp)
       IN  /\ trackers' = r.heap
           /\ clients' = [clients EXCEPT ![c] = r.self]
           /\ last' = Sent(Call("get_next_step", c, clients[c].state, <<>>,
                                IF r.calls = 0 THEN NoResponse ELSE resp,
                                r.ret, r.err, r.calls),
                           IF r.calls = 0
                           THEN NoRequest
                           ELSE Request(system.text,
                                        get_next_step_messages(clients[c], trackers)))
           /\ done' = IF r.err = "" /\ r.ret = Sentinel THEN done \cup {c} ELSE done
           /\ appended' = IF r.err = ""
                           THEN [appended EXCEPT ![clients[c].state] = @ + 1]
                           ELSE appended
    /\ UNCHANGED <<system, steps_obj>>

\* lazy_lm.ask_question(q), the backend answering resp if it is called
AskQuestion(c, q, resp) ==
    /\ c \in 1..Len(clients)
    /\ Len(clients[c].question_history) + 2 <= MaxHistory
    /\ LET r == ask_question(clients[c], trackers, q, resp)
       IN  /\ trackers' = r.heap
           /\ clients' = [clients EXCEPT ![c] = r.self]
           /\ last' = Sent(Call("ask_question", c, clients[c].state, q,
                                IF r.calls = 0 THEN NoResponse ELSE resp,
                                r.ret, r.err, r.calls),
                           IF r.calls = 0
                           THEN NoRequest
                           ELSE Request(ask_question_current_state(clients[c], trackers),
                                        ask_question_messages(clients[c], q)))
    /\ UNCHANGED <<system, steps_obj, done, appended>>

Next ==
    \/ \E p \in Problems : Create(p)
    \/ \E t \in TrackerIds, s \in StepInputs : AddStep(t, s)
    \/ \E t \in TrackerIds : Refresh(t)
    \/ \E st \in {None} \cup TrackerIds : NewClient(st)
    \/ \E p \in Problems : Lazy(p)
    \/ \E c \in ClientIds, p \in Problems : InitalizeProblem(c, p)
    \/ \E c \in ClientIds : GetCurrentStep(c)
    \/ \E c \in ClientIds, resp \in Responses : GetNextStep(c, resp)
    \/ \E c \in ClientIds, q \in Questions, resp \in Responses : AskQuestion(c, q, resp)

Spec == Init /\ [][Next]_vars

-----------------------------------------------------------------------------
(* Two clients constructed over the same tracker, as the notebook does with    *)
(* LazyEvaluationClient(llm=llm, state=state) in two of its cells.             *)

\* The identities of the clients of this scenario.
SharedClientIds == {1, 2}

\* The problems and the backend responses of this scenario: one problem, and
\* a backend that generates a step, returns a block without text, or fails.
SharedProblems == {Str(<<"p">>)}
SharedResponses ==
    { r \in Responses : r.kind \in {"fault", "no_text"} \/ r.text = <<11>> \o Str(<<"a", "\t">>) }

\* LazyEvaluationClient(llm=llm, state=state), up to two times
NewSharedClient(st) ==
    /\ st \in {None} \cup (1..Len(trackers))
    /\ Len(clients) < Cardinality(SharedClientIds)
    /\ LET r == LazyEvaluationClient(st)
       IN  IF IsRaised(r)
           THEN /\ last' = Call("LazyEvaluationClient", None, st, <<>>,
                                NoResponse, <<>>, r.raised, 0)
                /\ UNCHANGED clients
           ELSE /\ clients' = Append(clients, r)
                /\ last' = Call("LazyEvaluationClient", Len(clients) + 1, st, <<>>,
                                NoResponse, <<>>, "", 0)
    /\ UNCHANGED <<system, steps_obj, trackers, done, appended>>

NextShared ==
    \/ \E p \in SharedProblems : Create(p)
    \/ \E t \in TrackerIds : Refresh(t)
    \/ \E st \in {None} \cup TrackerIds : NewSharedClient(st)
    \/ \E c \in SharedClientIds, p \in SharedProblems : InitalizeProblem(c, p)
    \/ \E c \in SharedClientIds : GetCurrentStep(c)
    \/ \E c \in SharedClientIds, resp \in SharedResponses : GetNextStep(c, resp)
    \/ \E c \in SharedClientIds, q \in Questions, resp \in SharedResponses :
          AskQuestion(c, q, resp)

SpecShared == Init /\ [][NextShared]_vars

-----------------------------------------------------------------------------
(* Trackers constructed with every field of the dataclass supplied by the     *)
(* caller, LazyState(problem, steps, current_step), and rendered.              *)

\* The steps lists and the indexes a caller may pass to the constructor; one
\* list holds the zero width space U+200B, which is not printable and is not
\* whitespace.
CtorSteps == {<<>>, << Str(<<"a">>) >>, << Str(<<"p">>) >>, << <<8203>> >>}
CtorIndexes == {0, 1}

\* state = LazyState(problem=p, steps=s, current_step=i).  The list passed is
\* a new one with the elements s (o = None), or the list object that the steps
\* field of tracker o refers to, which the caller still holds and which has
\* the elements s.  The dataclass keeps the list it is given and __post_init__
\* appends to it in place, so every tracker that refers to it shows the problem
\* appended.
CreateWith(p, s, o, i) ==
    /\ Len(trackers) < Cardinality(TrackerIds)
    /\ o # None => /\ o \in 1..Len(trackers)
                   /\ s = trackers[o].steps
                   /\ Len(s) < MaxSteps
    /\ trackers' = [u \in 1..(Len(trackers) + 1) |->
                      IF u = Len(trackers) + 1
                      THEN LazyState(p, s, i)
                      ELSE IF o # None /\ steps_obj[u] = steps_obj[o]
                      THEN [trackers[u] EXCEPT !.steps = LazyState(p, s, i).steps]
                      ELSE trackers[u]]
    /\ steps_obj' = Append(steps_obj,
                           IF o = None THEN Len(trackers) + 1 ELSE steps_obj[o])
    /\ last' = Given(Call("LazyState_with_steps", 0, Len(trackers) + 1, p,
                          NoResponse, <<>>, "", 0),
                     s, i)
    /\ appended' = Append(appended, 0)
    /\ UNCHANGED <<system, clients, done>>

\* state.get_context()
GetContext(t) ==
    /\ t \in 1..Len(trackers)
    /\ last' = Call("get_context", 0, t, <<>>, NoResponse,
                    get_context(trackers[t]), "", 0)
    /\ UNCHANGED <<system, steps_obj, trackers, clients, done, appended>>

NextCtor ==
    \/ \E p \in Problems, s \in CtorSteps, i \in CtorIndexes :
          CreateWith(p, s, None, i)
    \/ \E p \in Problems, o \in TrackerIds, i \in CtorIndexes :
          o <= Len(trackers) /\ CreateWith(p, trackers[o].steps, o, i)
    \/ \E t \in TrackerIds, s \in StepInputs : AddStep(t, s)
    \/ \E t \in TrackerIds : Refresh(t)
    \/ \E t \in TrackerIds : GetContext(t)

SpecCtor == Init /\ [][NextCtor]_vars

-----------------------------------------------------------------------------
(* The notebook's loops: a caller that calls get_next_step, with questions in  *)
(* between, until the value returned equals "PROBLEM DONE".  The backend may   *)
(* answer anything on any call; a call that raises takes the caller out of the *)
(* loop with the exception.                                                    *)

\* The loop has left through `if next_step == "PROBLEM DONE": break`.
LoopStopped == 1 \in done

\* The loop has been left: through break, or by the exception a call raised.
LoopLeft == LoopStopped \/ last.err # ""

\* lazy_lm = client.lazy(p), before the loop
InitLoop ==
    /\ system = Binding(SystemText)
    /\ \E p \in Problems :
          /\ trackers = <<LazyState(p, <<>>, 0)>>
          /\ last = [op |-> "lazy", c |-> 1, t |-> 1, arg |-> p, resp |-> NoResponse,
                     ret |-> <<>>, err |-> "", calls |-> 0, had |-> 0,
                     sent |-> NoRequest, given |-> NoGiven]
    /\ steps_obj = <<1>>
    /\ clients = <<lazy(1)>>
    /\ done = {}
    /\ appended = <<0>>

\* next_step = lazy_lm.get_next_step() in the loop
LoopNext(resp) ==
    /\ ~LoopLeft
    /\ GetNextStep(1, resp)

\* r = lazy_lm.ask_question(user_question) in the loop
LoopAsk(q, resp) ==
    /\ ~LoopLeft
    /\ AskQuestion(1, q, resp)

NextLoop ==
    \/ \E resp \in Responses : LoopNext(resp)
    \/ \E q \in Questions, resp \in Responses : LoopAsk(q, resp)

\* The loop runs on: as long as it has not been left it makes its next
\* get_next_step call, and the blocking backend call returns.
SpecLoop ==
    InitLoop /\ [][NextLoop]_vars /\ WF_vars(\E resp \in Responses : LoopNext(resp))

-----------------------------------------------------------------------------
(* Vocabulary of the properties. *)

\* x is text with its surrounding whitespace removed: a slice of text that
\* neither starts nor ends with whitespace and leaves only whitespace out.
IsTrimOf(x, text) ==
    \E i \in 1..(Len(text) + 1), j \in 0..Len(text) :
        /\ x = SubSeq(text, i, j)
        /\ \A k \in 1..Len(text) : (k < i \/ k > j) => text[k] \in Whitespace
        /\ x # <<>> => (x[1] \notin Whitespace /\ x[Len(x)] \notin Whitespace)

\* The step taken is a call of op on client c (every call records itself in
\* last, so last' names the call of a step that changes the state).
IsCall(op, c) == last'.op = op /\ last'.c = c

\* Client c has a tracker bound: the controller is not UNINITIALIZED.
Bound(c) == c \in 1..Len(clients) /\ clients[c].state # None

-----------------------------------------------------------------------------
(* C1..C10 *)

\* C1 (as claimed; the code violates it): once a get_next_step call on a
\* client has returned the terminal sentinel, every later get_next_step call on
\* that client returns the sentinel again, leaves every tracker's steps and
\* current_step unchanged, and makes no backend call.
C1_TerminalIdempotence ==
    [][\A c \in ClientIds :
          (c \in done /\ IsCall("get_next_step", c))
              => /\ last'.err = ""
                 /\ last'.ret = Sentinel
                 /\ last'.calls = 0
                 /\ trackers' = trackers]_vars

\* C2 (as claimed; the code violates it): when a client has a tracker bound,
\* has not yet returned the sentinel, and the backend's text trims to the
\* sentinel, get_next_step returns the sentinel, the client counts as complete,
\* and steps and current_step are as before the call.
C2_SentinelNotAppended ==
    [][\A c \in ClientIds :
          (/\ IsCall("get_next_step", c)
           /\ Bound(c)
           /\ c \notin done
           /\ last'.resp.kind = "text"
           /\ IsTrimOf(Sentinel, last'.resp.text))
              => /\ last'.err = ""
                 /\ last'.ret = Sentinel
                 /\ c \in done'
                 /\ trackers' = trackers]_vars

\* C3: every ask_question call, whether it returns or raises, and however it
\* is interleaved with get_next_step calls, leaves the steps and current_step
\* of every tracker exactly as they were before the call.
C3_QuestionIsolation ==
    [][last'.op = "ask_question" => trackers' = trackers]_vars

\* C3 witness: a second question has been answered on a client after a step
\* was disclosed on its tracker.
C3_Witness ==
    /\ last.op = "ask_question"
    /\ last.err = ""
    /\ last.had >= 2
    /\ Len(clients[last.c].question_history) = 4

\* C4: when a client has a tracker bound and the backend returns text that
\* does not trim to the sentinel, one get_next_step call appends exactly one
\* element to the tracker's steps, that element is the trimmed text,
\* current_step grows by exactly 1, no other tracker changes, the tracker stays
\* bound, and the call returns the same trimmed text.
C4_OneStepPerCall ==
    [][\A c \in ClientIds :
          (/\ IsCall("get_next_step", c)
           /\ Bound(c)
           /\ last'.resp.kind = "text"
           /\ ~IsTrimOf(Sentinel, last'.resp.text))
              => LET t == clients[c].state
                 IN  /\ last'.err = ""
                     /\ IsTrimOf(last'.ret, last'.resp.text)
                     /\ trackers'[t].steps = Append(trackers[t].steps, last'.ret)
                     /\ trackers'[t].current_step = trackers[t].current_step + 1
                     /\ trackers'[t].problem = trackers[t].problem
                     /\ Len(trackers') = Len(trackers)
                     /\ \A u \in 1..Len(trackers) : u # t => trackers'[u] = trackers[u]
                     /\ clients'[c].state = t]_vars

\* C4 witness: get_next_step has returned a step trimmed from padded text and
\* the tracker holds it as its newest step.
C4_Witness ==
    /\ last.op = "get_next_step"
    /\ last.err = ""
    /\ last.resp.text = <<11>> \o Str(<<"a", "\t">>)
    /\ last.ret = Str(<<"a">>)
    /\ trackers[last.t].steps[Len(trackers[last.t].steps)] = Str(<<"a">>)
    /\ Len(trackers[last.t].steps) = last.had + 1

\* C5: in every state reachable by constructing trackers from a problem,
\* add_step, refresh, initalize_problem, get_next_step and ask_question, every
\* tracker has steps[0] equal to its problem and current_step a valid index
\* into steps.
C5_TrackerInvariant ==
    \A t \in 1..Len(trackers) :
        /\ Len(trackers[t].steps) >= 1
        /\ trackers[t].steps[1] = trackers[t].problem
        /\ 0 <= trackers[t].current_step
        /\ trackers[t].current_step < Len(trackers[t].steps)

\* C5 witness: a tracker bound to a client has been advanced twice and the
\* client has asked a question.
C5_Witness ==
    \E c \in 1..Len(clients) :
        /\ clients[c].state # None
        /\ trackers[clients[c].state].current_step = 2
        /\ clients[c].question_history # <<>>

\* C6: each add_step call, made directly or by get_next_step, increases
\* current_step by exactly 1; no call other than refresh decreases it; and
\* current_step equals the number of add_step calls made on the tracker since
\* it was constructed or last refreshed.
C6_AppendMonotonicity ==
    [][/\ \A t \in 1..Len(trackers) :
            /\ trackers'[t].current_step < trackers[t].current_step
                   => (last'.op = "refresh" /\ last'.t = t)
            /\ (last'.op = "add_step" /\ last'.t = t)
                   => trackers'[t].current_step = trackers[t].current_step + 1
            /\ appended'[t] = appended[t] + 1
                   => trackers'[t].current_step = trackers[t].current_step + 1
       /\ \A t \in 1..Len(trackers') :
            trackers'[t].current_step = appended'[t]]_vars

\* C6 witness: two steps have been appended to a tracker since it was last
\* refreshed and its current_step is 2.
C6_Witness ==
    /\ last.op = "add_step"
    /\ appended[last.t] = 2
    /\ trackers[last.t].current_step = 2

\* C7: refresh leaves the tracker in exactly the state that constructing a
\* tracker with the same problem produces, steps = [problem] and
\* current_step = 0, and refreshing that state again changes nothing.
C7_ResetIdempotence ==
    [][last'.op = "refresh"
          => LET t == last'.t
             IN  /\ trackers'[t] = LazyState(trackers[t].problem, <<>>, 0)
                 /\ trackers'[t].problem = trackers[t].problem
                 /\ trackers'[t].steps = <<trackers[t].problem>>
                 /\ trackers'[t].current_step = 0
                 /\ refresh(trackers'[t]) = trackers'[t]]_vars

\* C7 witness: a tracker that held three steps has been refreshed.
C7_Witness ==
    /\ last.op = "refresh"
    /\ last.had = 3
    /\ Len(trackers[last.t].steps) = 1

\* C8: for every non-empty problem, right after LazyState(problem=problem) the
\* tracker has steps = [problem] and current_step = 0.
C8_InitializationInvariant ==
    (last.op = "LazyState" /\ last.arg # <<>>)
        => /\ trackers[last.t].problem = last.arg
           /\ trackers[last.t].steps = <<last.arg>>
           /\ trackers[last.t].current_step = 0

\* C8 witness: a second tracker has been constructed from a non-empty problem.
C8_Witness ==
    /\ last.op = "LazyState"
    /\ last.arg = Str(<<"p">>)
    /\ last.t = 2

\* C9 (as claimed; the code violates it): lazy(problem) returns a client, and
\* the client that lazy(problem) returns has a tracker bound, with
\* steps = [problem] and current_step = 0, and an empty question_history; and
\* a get_next_step or ask_question call on a client with a tracker bound is
\* never refused before the backend is reached.
C9_LazyReturnsActive ==
    /\ last.op = "lazy"
          => /\ last.err = ""
             /\ last.c \in 1..Len(clients)
             /\ clients[last.c].state = last.t
             /\ last.t \in 1..Len(trackers)
             /\ trackers[last.t].problem = last.arg
             /\ trackers[last.t].steps = <<last.arg>>
             /\ trackers[last.t].current_step = 0
             /\ clients[last.c].question_history = <<>>
    /\ (last.op \in {"get_next_step", "ask_question"} /\ clients[last.c].state # None)
          => last.calls = 1

\* C9 witness: lazy has returned a client for a non-empty problem.
C9_Witness ==
    /\ last.op = "lazy"
    /\ last.arg = Str(<<"p">>)
    /\ clients[last.c].state = last.t

\* C10 (as claimed; the code violates it): a get_next_step or ask_question
\* call that raises leaves every tracker and every client's question_history
\* exactly as they were before the call.
C10_NoPartialFailure ==
    [][(last'.op \in {"get_next_step", "ask_question"} /\ last'.err # "")
          => (trackers' = trackers /\ clients' = clients)]_vars

-----------------------------------------------------------------------------
(* C11..C20 *)

\* C11: get_next_step on a client with no tracker bound raises the
\* not-initialized error without calling the backend, and leaves every client
\* (its state and question_history) and every tracker as they were.
C11_NextStepNotInitialized ==
    [][\A c \in ClientIds :
          (IsCall("get_next_step", c) /\ c \in 1..Len(clients)
           /\ clients[c].state = None)
              => /\ last'.err = NotInitialized
                 /\ last'.calls = 0
                 /\ last'.resp = NoResponse
                 /\ clients' = clients
                 /\ trackers' = trackers]_vars

\* C11 witness: get_next_step has been refused on a client that has no
\* tracker bound.
C11_Witness ==
    /\ last.op = "get_next_step"
    /\ last.err = NotInitialized
    /\ last.calls = 0
    /\ clients[last.c].state = None

\* C12 (as claimed; the code violates it): ask_question on a client with no
\* tracker bound raises the same not-initialized error as get_next_step,
\* without calling the backend and without appending to question_history.
C12_AskNotInitialized ==
    [][\A c \in ClientIds :
          (IsCall("ask_question", c) /\ c \in 1..Len(clients)
           /\ clients[c].state = None)
              => /\ last'.err = NotInitialized
                 /\ last'.calls = 0
                 /\ clients' = clients]_vars

\* C13 (as claimed; the code violates it): constructing a tracker from an
\* empty problem fails, so no tracker has an empty problem or an empty
\* steps[0].
C13_EmptyProblemRejected ==
    \A t \in 1..Len(trackers) :
        /\ trackers[t].problem # <<>>
        /\ trackers[t].steps # <<>> => trackers[t].steps[1] # <<>>

\* C14 (as claimed; the code violates it): when the backend's response holds
\* no generated text, its content list being empty or its first content block
\* having no text, get_next_step raises the empty-response error ("No next
\* step found"), appends nothing to steps and leaves current_step unchanged.
C14_NextStepEmptyResponse ==
    [][\A c \in ClientIds :
          (IsCall("get_next_step", c) /\ Bound(c)
           /\ last'.resp.kind \in {"no_content", "no_text"})
              => /\ last'.err = NoNextStep
                 /\ trackers' = trackers
                 /\ clients' = clients]_vars

\* C15 (as claimed; the code violates it): when the first content block of the
\* backend's response has no text, ask_question raises the empty-response
\* error that get_next_step raises for the same condition.
C15_AskEmptyResponse ==
    (last.op = "ask_question" /\ last.resp.kind = "no_text")
        => last.err = NoNextStep

\* C16: ask_question succeeds on a client with a tracker bound whether or not
\* get_next_step has already returned the sentinel; each successful call
\* appends exactly the question and then the trimmed backend text to
\* question_history, returns that trimmed text, and leaves the bound tracker,
\* every tracker's contents and the completion history as they were.
C16_AskAppendsOnePair ==
    [][\A c \in ClientIds :
          /\ (IsCall("ask_question", c) /\ Bound(c) /\ last'.resp.kind = "text")
                => last'.err = ""
          /\ (IsCall("ask_question", c) /\ last'.err = "")
                => /\ Bound(c)
                   /\ IsTrimOf(last'.ret, last'.resp.text)
                   /\ clients'[c].question_history =
                          clients[c].question_history \o <<last'.arg, last'.ret>>
                   /\ clients'[c].state = clients[c].state
                   /\ (c \in done') = (c \in done)
                   /\ trackers' = trackers]_vars

\* C16 witness: a question has been answered, from padded backend text, on a
\* client whose get_next_step had already returned the sentinel.
C16_Witness ==
    /\ last.op = "ask_question"
    /\ last.err = ""
    /\ last.c \in done
    /\ last.resp.text = <<11>> \o Str(<<"a", "\t">>)
    /\ last.ret = Str(<<"a">>)
    /\ clients[last.c].question_history = <<last.arg, Str(<<"a">>)>>

\* C19: a get_next_step or ask_question call makes at most one backend call,
\* and when that call fails the failure is what the caller gets, after exactly
\* one backend call.
C19_NoRetry ==
    last.op \in {"get_next_step", "ask_question"}
        => /\ last.calls <= 1
           /\ last.resp.kind = "fault"
                 => (last.err = BackendFault /\ last.calls = 1)

\* C19 witness: a backend fault has reached the caller of get_next_step after
\* one backend call.
C19_Witness ==
    /\ last.op = "get_next_step"
    /\ last.resp.kind = "fault"
    /\ last.err = BackendFault
    /\ last.calls = 1

\* C17: across initalize_problem, get_next_step, ask_question and refresh on
\* two clients that may share a tracker, each client's question_history before
\* a call is a prefix of its question_history after it; only an ask_question
\* call on that same client extends it; an ask_question call changes no
\* tracker; and no question is ever an element of a tracker's steps.
C17_QuestionLogAppendOnly ==
    [][/\ \A c \in 1..Len(clients) :
            /\ Len(clients'[c].question_history) >= Len(clients[c].question_history)
            /\ SubSeq(clients'[c].question_history, 1,
                      Len(clients[c].question_history))
                   = clients[c].question_history
            /\ clients'[c].question_history # clients[c].question_history
                   => IsCall("ask_question", c)
       /\ last'.op = "ask_question" => trackers' = trackers
       /\ \A t \in 1..Len(trackers') :
            \A i \in 1..Len(trackers'[t].steps) :
                trackers'[t].steps[i] \notin Questions]_vars

\* C17 witness: two clients are bound to the same tracker, a step has been
\* disclosed on it, and the second client has just had a question answered
\* while the first client's question_history holds a different number of
\* entries.
C17_Witness ==
    /\ Len(clients) = 2
    /\ clients[1].state # None
    /\ clients[1].state = clients[2].state
    /\ last.op = "ask_question"
    /\ last.c = 2
    /\ last.err = ""
    /\ last.had >= 2
    /\ Len(clients[2].question_history) = 2
    /\ Len(clients[1].question_history) = 4

\* C18: the rendering of get_context is determined by the tracker's problem
\* and steps alone: any two trackers with equal problem and equal steps render
\* the same context, whatever their current_step; and a get_context call
\* returns that rendering and changes no tracker.
C18_ContextDeterminism ==
    [][/\ \A t, u \in 1..Len(trackers') :
            (/\ trackers'[t].problem = trackers'[u].problem
             /\ trackers'[t].steps = trackers'[u].steps)
                => get_context(trackers'[t]) = get_context(trackers'[u])
       /\ last'.op = "get_context"
            => /\ trackers' = trackers
               /\ last'.ret = get_context(trackers[last'.t])]_vars

\* C18 witness: two trackers with equal problem and steps but different
\* current_step exist and one has been rendered, as
\* "Problem: p \n Steps so far: ['a', 'p']".
C18_Witness ==
    /\ Len(trackers) = 2
    /\ trackers[1].problem = trackers[2].problem
    /\ trackers[1].steps = trackers[2].steps
    /\ trackers[1].current_step # trackers[2].current_step
    /\ last.op = "get_context"
    /\ last.ret = Str(<<"P", "r", "o", "b", "l", "e", "m", ":", " ", "p", " ", "\n", " ", "S", "t", "e", "p", "s", " ", "s", "o", " ", "f", "a", "r", ":", " ", "[", "'", "a", "'", ",", " ", "'", "p", "'", "]">>)

\* The backend has just answered a get_next_step call with text that trims to
\* the sentinel.
SentinelAnswered ==
    /\ last.op = "get_next_step"
    /\ last.resp.kind = "text"
    /\ IsTrimOf(Sentinel, last.resp.text)

\* C20: in the loop that calls get_next_step until the value returned equals
\* the sentinel, once the backend has answered a get_next_step call with text
\* that trims to the sentinel the loop has stopped, and no call is made after
\* it has stopped; a get_next_step call stops the loop exactly when the
\* backend's text trims to the sentinel, so it stops at the first such call;
\* and ask_question calls in between never stop it.
C20_LoopTerminates ==
    /\ SentinelAnswered ~> LoopStopped
    /\ [][/\ ~LoopStopped
          /\ last'.op = "get_next_step"
               => (LoopStopped' <=> (/\ last'.resp.kind = "text"
                                     /\ IsTrimOf(Sentinel, last'.resp.text)))
          /\ last'.op = "ask_question" => ~LoopStopped']_vars

\* C20 witness: the loop has stopped on padded sentinel text after a step was
\* disclosed and a question was answered.
C20_Witness ==
    /\ LoopStopped
    /\ last.op = "get_next_step"
    /\ last.resp.text = Str(<<"\n">>) \o Sentinel \o Str(<<" ">>)
    /\ last.ret = Sentinel
    /\ last.had = 2
    /\ clients[1].question_history # <<>>

-----------------------------------------------------------------------------
(* C21..C26 *)

\* C21: every get_next_step call that reaches the backend hands it exactly one
\* message, a user message whose content is the context rendered from the
\* tracker as it was immediately before the call: "Problem: ", the problem,
\* " \n Steps so far: " and the list of the steps disclosed so far in order.
\* The content is fixed by the tracker alone, so nothing of the client's
\* question_history is in it.
C21_PromptIsContext ==
    [][\A c \in ClientIds :
          (IsCall("get_next_step", c) /\ last'.calls >= 1)
              => /\ Bound(c)
                 /\ Len(last'.sent.messages) = 1
                 /\ last'.sent.messages[1].role = "user"
                 /\ last'.sent.messages[1].content
                       = get_context(trackers[clients[c].state])
                 /\ last'.sent.messages[1].content
                       = ProblemLabel
                            \o trackers[clients[c].state].problem
                            \o StepsLabel
                            \o py_str_list(trackers[clients[c].state].steps)]_vars

\* C21 witness: a get_next_step call, made after a question was answered, has
\* sent the context with the two steps the tracker had before the call and has
\* added a third.
C21_Witness ==
    /\ last.op = "get_next_step"
    /\ last.err = ""
    /\ clients[last.c].question_history # <<>>
    /\ Len(trackers[last.t].steps) = 3
    /\ last.sent.messages[1].content
          = Str(<<"P", "r", "o", "b", "l", "e", "m", ":", " ", "p", " ", "\n",
            " ", "S", "t", "e", "p", "s", " ", "s", "o", " ", "f", "a",
            "r", ":", " ", "[", "'", "p", "'", ",", " ", "'", "a", "'",
            "]">>)

\* The last disclosed step of a tracker: the last of its steps that is not the
\* sentinel, which is the problem when no other step has been recorded since
\* construction or the last refresh.
LastDisclosed(st) ==
    LET shown == { i \in 1..Len(st.steps) : st.steps[i] # Sentinel }
    IN  st.steps[CHOOSE i \in shown : \A j \in shown : j <= i]

\* C22 (as claimed; the code violates it): the system text of every
\* ask_question call that reaches the backend is rendered with
\* steps[current_step] as the tracker holds it when the call is made, and that
\* step is the last disclosed step: the step the most recent successful
\* get_next_step that did not return the sentinel recorded since construction
\* or the last refresh, or the problem when there is none.
C22_CurrentStepIsLastDisclosed ==
    [][\A c \in ClientIds :
          (IsCall("ask_question", c) /\ last'.calls >= 1)
              => /\ Bound(c)
                 /\ last'.sent.system
                       = current_state_text(
                             clients[c].system,
                             trackers[clients[c].state].problem,
                             get_context(trackers[clients[c].state]),
                             Item(trackers[clients[c].state].steps,
                                  trackers[clients[c].state].current_step))
                 /\ Item(trackers[clients[c].state].steps,
                         trackers[clients[c].state].current_step)
                       = LastDisclosed(trackers[clients[c].state])]_vars

\* C23: every ask_question call that reaches the backend hands it one user
\* message, rendered from the client's question_history as it stood before the
\* call (every earlier question with its answer, in order) and the new
\* question; the new question and its trimmed answer are in the history only
\* after the call, appended to what was there, so the answer is not in the
\* message that asked for it.
C23_PromptEmbedsLogBefore ==
    [][\A c \in ClientIds :
          (IsCall("ask_question", c) /\ last'.calls >= 1)
              => /\ Len(last'.sent.messages) = 1
                 /\ last'.sent.messages[1].role = "user"
                 /\ last'.sent.messages[1].content
                       = prompt_text(py_str_list(clients[c].question_history),
                                     last'.arg)
                 /\ last'.err = ""
                       => /\ clients'[c].question_history
                                = clients[c].question_history
                                     \o <<last'.arg, last'.ret>>
                          /\ last'.sent.messages[1].content
                                # prompt_text(
                                      py_str_list(clients'[c].question_history),
                                      last'.arg)]_vars

\* C23 witness: the second successful ask_question of a client has sent the
\* first question and its answer, and the second question, and the history now
\* holds both pairs.
C23_Witness ==
    /\ last.op = "ask_question"
    /\ last.err = ""
    /\ Len(clients[last.c].question_history) = 4
    /\ last.sent.messages[1].content
          = Str(<<"\n", " ", " ", " ", " ", " ", " ", " ", " ", "Q", "u", "e",
            "s", "t", "i", "o", "n", " ", "H", "i", "s", "t", "o", "r",
            "y", ":", " ", "[", "'", "w", "?", "'", ",", " ", "'", "a",
            "'", "]", "\n", " ", " ", " ", " ", " ", " ", " ", " ", "Q",
            "u", "e", "s", "t", "i", "o", "n", ":", " ", "w", "?", "\n",
            "\n", " ", " ", " ", " ", " ", " ", " ", " ", "P", "l", "e",
            "a", "s", "e", " ", "a", "n", "s", "w", "e", "r", " ", "t",
            "h", "e", " ", "q", "u", "e", "s", "t", "i", "o", "n", " ",
            "w", "i", "t", "h", "o", "u", "t", " ", "a", "d", "v", "a",
            "n", "c", "i", "n", "g", " ", "t", "o", " ", "t", "h", "e",
            " ", "n", "e", "x", "t", " ", "s", "t", "e", "p", ".", "\n",
            " ", " ", " ", " ", " ", " ", " ", " ", "I", "f", " ", "y",
            "o", "u", " ", "a", "r", "e", " ", "a", "s", "k", "e", "d",
            " ", "t", "o", " ", "p", "r", "o", "v", "i", "d", "e", " ",
            "a", "n", " ", "e", "x", "a", "m", "p", "l", "e", " ", "f",
            "o", "r", " ", "a", " ", "s", "p", "e", "c", "i", "f", "i",
            "c", " ", "s", "t", "e", "p", ",", " ", "p", "l", "e", "a",
            "s", "e", " ", "p", "r", "o", "v", "i", "d", "e", " ", "a",
            "n", " ", "e", "x", "a", "m", "p", "l", "e", " ", "t", "h",
            "a", "t", " ", "i", "s", " ", "n", "o", "t", " ", "i", "n",
            " ", "t", "h", "e", " ", "c", "u", "r", "r", "e", "n", "t",
            " ", "c", "o", "n", "t", "e", "x", "t", ".", "\n", " ", " ",
            " ", " ">>)

\* C24: in every tracker constructed by LazyState(problem) and changed only by
\* add_step and refresh (directly or through a client), current_step is the
\* length of steps minus 1, and a get_current_step call that has just returned
\* has returned the last element of steps.
C24_IndexIsLast ==
    /\ \A t \in 1..Len(trackers) :
          trackers[t].current_step = Len(trackers[t].steps) - 1
    /\ (last.op = "get_current_step" /\ last.t # None)
          => /\ last.err = ""
             /\ last.ret = trackers[last.t].steps[Len(trackers[last.t].steps)]

\* C24 witness: get_current_step has returned the one step appended to a
\* tracker since its construction or last refresh, on a client that had
\* returned the sentinel before.
C24_Witness ==
    /\ last.op = "get_current_step"
    /\ last.ret = Str(<<"a">>)
    /\ trackers[last.t].steps = << Str(<<"p">>), Str(<<"a">>) >>
    /\ trackers[last.t].current_step = 1
    /\ appended[last.t] = 1
    /\ 1 \in done

\* C25: initalize_problem on a client that has a tracker bound, complete or
\* not, binds a tracker that did not exist before, with the new problem, steps
\* = [new problem] and current_step = 0, so the client no longer sees the steps
\* of the tracker it had; that tracker and every other are as they were, and
\* the client's question_history is unchanged.
C25_ReinitializeKeepsLog ==
    [][\A c \in ClientIds :
          (IsCall("initalize_problem", c) /\ Bound(c))
              => /\ clients'[c].state \notin 1..Len(trackers)
                 /\ clients'[c].state \in 1..Len(trackers')
                 /\ trackers'[clients'[c].state]
                       = [problem |-> last'.arg, steps |-> <<last'.arg>>,
                          current_step |-> 0]
                 /\ SubSeq(trackers', 1, Len(trackers)) = trackers
                 /\ clients'[c].question_history = clients[c].question_history]_vars

\* C25 witness: a client that had disclosed steps up to the sentinel and had a
\* question answered has been given a new problem.
C25_Witness ==
    /\ last.op = "initalize_problem"
    /\ 1 \in done
    /\ Len(trackers[1].steps) = 3
    /\ clients[1].state = 2
    /\ clients[1].question_history # <<>>
    /\ trackers[2].steps = << Str(<<"p">>) >>

\* C26 (corrected): right after LazyState(problem, steps=s, current_step=i)
\* the tracker's steps are s followed by the problem, so the last element of
\* steps is the problem; current_step is i; and steps[0] is the problem when s
\* is empty and s[0] otherwise, which is the problem only if s is empty or
\* itself starts with the problem.
C26_SuppliedStepsSeededLast ==
    last.op = "LazyState_with_steps"
        => /\ trackers[last.t].problem = last.arg
           /\ trackers[last.t].steps = last.given.steps \o <<last.arg>>
           /\ trackers[last.t].steps[Len(trackers[last.t].steps)] = last.arg
           /\ trackers[last.t].current_step = last.given.current_step
           /\ trackers[last.t].steps[1]
                 = IF last.given.steps = <<>> THEN last.arg ELSE last.given.steps[1]
           /\ (trackers[last.t].steps[1] = last.arg)
                 <=> (last.given.steps = <<>> \/ last.given.steps[1] = last.arg)

\* C26 witness: a tracker has been constructed with the problem "p", one
\* supplied step other than the problem, and current_step 1.
C26_Witness ==
    /\ last.op = "LazyState_with_steps"
    /\ last.arg = Str(<<"p">>)
    /\ last.given = [steps |-> << Str(<<"a">>) >>, current_step |-> 1]
    /\ trackers[last.t] = [problem |-> Str(<<"p">>), steps |-> << Str(<<"a">>), Str(<<"p">>) >>,
                           current_step |-> 1]

\* C26 (as claimed; it does not hold): as the corrected statement, but with
\* steps[0] equal to the problem only when s is empty.
C26_SeedFirstOnlyWhenEmpty ==
    last.op = "LazyState_with_steps"
        => /\ trackers[last.t].steps = last.given.steps \o <<last.arg>>
           /\ trackers[last.t].steps[Len(trackers[last.t].steps)] = last.arg
           /\ trackers[last.t].current_step = last.given.current_step
           /\ (trackers[last.t].steps[1] = last.arg) => last.given.steps = <<>>

=============================================================================
